---- MODULE Spec2Model ----
(***************************************************************************)
(* DomainReconciler of controllers/domain_controller.go: one reconcile     *)
(* pass per trigger (Get Domain, three DNS probes, converge the stats      *)
(* Ingress, Status().Update, requeue interval), run against an API server  *)
(* that other actors write to as well.  A pass is split at its calls to    *)
(* the API server and to the DNS checker: these are the points at which    *)
(* other actors can interleave.                                            *)
(***************************************************************************)
EXTENDS Naturals, Sequences, FiniteSets, TLC

\* ------------------------------------------------------------------------
\* Durations, in minutes.
Minute == 1

Hour == 60

\* ------------------------------------------------------------------------
\* The universe the model is checked over.
Acme == [Namespace |-> "default", Name |-> "acme"]

Beta == [Namespace |-> "default", Name |-> "beta"]

\* Request keys (types.NamespacedName) the store knows.
Keys == {Acme, Beta}

\* Keys with reconcile passes and external writers under Spec.
SoloKeys == {Acme}

BaseDomains == {"mail.acme.com", "mx.acme.com"}

\* Error kinds returned by the API server, the DNS checker and
\* SetControllerReference; "none" is the nil error.
NoError == "none"

\* ------------------------------------------------------------------------
\* Objects.
ZeroDNS == [DKIN |-> FALSE, Stats |-> FALSE, SFP |-> FALSE]

\* The stored Domain of a key; Present = FALSE is "no such object".
ZeroStatus == [DNS |-> ZeroDNS]

NoDomain == [Present |-> FALSE, BaseDomain |-> "", Status |-> ZeroStatus]

NoOwner == [Namespace |-> "", Name |-> ""]

NoRule == [Host |-> "", Path |-> "", PathType |-> "", Service |-> "", Port |-> 0]

\* A stored Ingress; Present = FALSE is "no such object".  Deleting is
\* DeletionTimestamp != nil; Finalizer is "metadata.finalizers is not empty".
NoIngress ==
    [Present |-> FALSE, Namespace |-> "", Name |-> "", Owner |-> NoOwner,
     Rule |-> NoRule, Deleting |-> FALSE, Finalizer |-> FALSE]

\* The Domain object a pass holds (the *Domain filled by r.Get).
NoDomainObj == [Namespace |-> "", Name |-> "", BaseDomain |-> "", Status |-> ZeroStatus]

\* One name for the Ingress of every Domain.
statsIngressNameFixed(domain) == "stats"

\* statsIngressName, lines 204-206.
statsIngressName(domain) == domain.Name \o "-stats"

\* The NamespacedName reconcileIngress looks up.
IngressKey(domain) == [Namespace |-> domain.Namespace, Name |-> statsIngressName(domain)]

IngressKeys == {IngressKey(k) : k \in Keys}

\* buildDesiredIngress taking the Domain's name for the host of the rule.
buildDesiredIngressHostName(domain) ==
    [Present |-> TRUE,
     Namespace |-> domain.Namespace,
     Name |-> statsIngressName(domain),
     Owner |-> [Namespace |-> domain.Namespace, Name |-> domain.Name],
     Rule |-> [Host |-> domain.Name, Path |-> "/", PathType |-> "Prefix",
               Service |-> "k8nnon", Port |-> 80],
     Deleting |-> FALSE, Finalizer |-> FALSE]

\* buildDesiredIngress without the call of SetControllerReference.
buildDesiredIngressNoOwner(domain) ==
    [Present |-> TRUE,
     Namespace |-> domain.Namespace,
     Name |-> statsIngressName(domain),
     Owner |-> [Namespace |-> "", Name |-> ""],
     Rule |-> [Host |-> domain.BaseDomain, Path |-> "/", PathType |-> "Prefix",
               Service |-> "k8nnon", Port |-> 80],
     Deleting |-> FALSE, Finalizer |-> FALSE]

buildDesiredIngress(domain) ==
    [Present |-> TRUE,
     Namespace |-> domain.Namespace,
     Name |-> statsIngressName(domain),
     Owner |-> [Namespace |-> domain.Namespace, Name |-> domain.Name],
     Rule |-> [Host |-> domain.BaseDomain, Path |-> "/", PathType |-> "Prefix",
               Service |-> "k8nnon", Port |-> 80],
     Deleting |-> FALSE, Finalizer |-> FALSE]

\* computeReconcileInterval with "or" for "and".
computeReconcileIntervalAny(domain) ==
    IF domain.Status.DNS.Stats \/ domain.Status.DNS.SFP \/ domain.Status.DNS.DKIN
    THEN 1 * Hour
    ELSE 1 * Minute

computeReconcileInterval(domain) ==
    IF domain.Status.DNS.Stats /\ domain.Status.DNS.SFP /\ domain.Status.DNS.DKIN
    THEN 1 * Hour
    ELSE 1 * Minute

\* ------------------------------------------------------------------------
\* State.
VARIABLES
    domains,    \* API server: key -> stored Domain
    ingresses,  \* API server: Ingress key -> stored Ingress
    pass,       \* key -> the Reconcile call of that key (locals, position, result)
    ext,        \* key -> another actor wrote the key's objects since its pass began
    prev        \* key -> what the pass before the current one did

vars == <<domains, ingresses, pass, ext, prev>>

NoResult == [err |-> NoError, RequeueAfter |-> 0]

IdlePass ==
    [pc |-> "idle", domain |-> NoDomainObj, rvCurrent |-> FALSE,
     dnsStatus |-> ZeroDNS, ingress |-> NoIngress,
     found |-> FALSE, foundDeleting |-> FALSE,
     result |-> NoResult, ops |-> << >>]

NoPrev == [ok |-> FALSE, dnsStatus |-> ZeroDNS, deleted |-> FALSE]

Init ==
    /\ domains = [k \in Keys |-> NoDomain]
    /\ ingresses = [i \in IngressKeys |-> NoIngress]
    /\ pass = [k \in Keys |-> IdlePass]
    /\ ext = [k \in Keys |-> FALSE]
    /\ prev = [k \in Keys |-> NoPrev]

\* ------------------------------------------------------------------------
\* Helpers of a pass.
Op(name, err) == [op |-> name, err |-> err]

Called(p, name, err) == [p EXCEPT !.ops = Append(@, Op(name, err))]

\* return ctrl.Result{RequeueAfter: d}, err
Return(p, err, d) == [p EXCEPT !.pc = "done", !.result = [err |-> err, RequeueAfter |-> d]]

\* client.IgnoreNotFound
IgnoreNotFound(err) == IF err = "NotFound" THEN NoError ELSE err

\* Reconcile returning the error of the Get as it is.
FetchFailedRaw(p, err) == Return(p, err, 0)

\* Reconcile, lines 65-67: the Get of the Domain failed with err.
FetchFailed(p, err) == Return(p, IgnoreNotFound(err), 0)

\* Reconcile going on to reconcileIngress although checkDomainDNS returned err.
ProbeFailedGoesOn(p, err) == [p EXCEPT !.pc = "GetIngress"]

\* checkDomainDNS returning the flags probed so far together with the error.
ProbeFailedPartial(p, err) == Return(p, err, 1 * Minute)

\* Reconcile, lines 70-72: checkDomainDNS returned err.
ProbeFailed(p, err) == Return([p EXCEPT !.dnsStatus = ZeroDNS], err, 1 * Minute)

\* Reconcile going on to the status update although reconcileIngress returned err.
IngressFailedGoesOn(p, err) == [p EXCEPT !.pc = "UpdateStatus"]

\* Reconcile looking the Ingress up again after reconcileIngress returned err.
IngressFailedRetries(p, err) == [p EXCEPT !.pc = "GetIngress", !.ingress = NoIngress]

\* Reconcile, lines 78-81: reconcileIngress returned err.
IngressFailed(p, err) == Return(p, err, 0)

\* Reconcile dropping the error of Status().Update.
UpdateFailedDropped(p, err) == Return(p, NoError, computeReconcileInterval(p.domain))

\* Reconcile, lines 83-85: Status().Update returned err.
UpdateFailed(p, err) == Return(p, err, 0)

\* Reconcile, lines 87-89.
Reconciled(p) == Return(p, NoError, computeReconcileInterval(p.domain))

\* A status that keeps the flags already set instead of replacing them.
DomainStatusMerged(old, dnsStatus) ==
    [DNS |-> [DKIN |-> old.DNS.DKIN \/ dnsStatus.DKIN,
              Stats |-> dnsStatus.Stats,
              SFP |-> old.DNS.SFP \/ dnsStatus.SFP]]

\* A status that stays the one read from the store.
DomainStatusKept(old, dnsStatus) == old

\* Reconcile, lines 74-76: the status the pass gives its Domain object.
DomainStatus(old, dnsStatus) == [DNS |-> dnsStatus]

\* handleFoundIngress without its Delete branch.
handleFoundIngressKeeps(ingress, domain) == "nil"

\* handleFoundIngress without its Stats test: every live Ingress found is deleted.
handleFoundIngressDeletes(ingress, domain) == IF ~ingress.Deleting THEN "Delete" ELSE "nil"

\* handleFoundIngress: the call it makes on a found Ingress.
handleFoundIngress(ingress, domain) ==
    IF domain.Status.DNS.Stats THEN "nil"
    ELSE IF ~ingress.Deleting THEN "Delete"
    ELSE "nil"

\* reconcileIngress returning nil whenever the Get said NotFound.
reconcileIngressNotFoundNever(domain) == "nil"

\* reconcileIngress, lines 111-120: the call it makes when the Get said NotFound.
reconcileIngressNotFound(domain) ==
    IF ~domain.Status.DNS.Stats THEN "nil" ELSE "Create"

\* One probe of the DNS checker: a value, or an error.
ProbeOutcomes ==
    {[val |-> TRUE, err |-> NoError], [val |-> FALSE, err |-> NoError],
     [val |-> FALSE, err |-> "Lookup"]}

\* What the next pass of key k remembers of this one: a pass that found the
\* Domain, returned no error and had no other writer since it began.
PassSummary(k) ==
    IF pass[k].pc = "done" /\ pass[k].result.err = NoError /\ pass[k].domain # NoDomainObj
       /\ ~ext[k]
    THEN [ok |-> TRUE, dnsStatus |-> pass[k].dnsStatus,
          deleted |-> \E i \in DOMAIN pass[k].ops : pass[k].ops[i] = Op("Delete", NoError)]
    ELSE NoPrev

\* ------------------------------------------------------------------------
\* Reconcile, lines 60-67: a trigger for key k starts a pass, which gets the Domain.
Fetch(k) ==
    /\ pass[k].pc \in {"idle", "done"}
    /\ prev' = [prev EXCEPT ![k] = PassSummary(k)]
    /\ ext' = [ext EXCEPT ![k] = FALSE]
    /\ \/ \* the API server fails
          pass' = [pass EXCEPT ![k] = FetchFailed(Called(IdlePass, "GetDomain", "Transient"), "Transient")]
       \/ /\ ~domains[k].Present
          /\ pass' = [pass EXCEPT ![k] = FetchFailed(Called(IdlePass, "GetDomain", "NotFound"), "NotFound")]
       \/ /\ domains[k].Present
          /\ pass' = [pass EXCEPT ![k] =
                 [Called(IdlePass, "GetDomain", NoError) EXCEPT
                     !.pc = "CheckDomainDKim",
                     !.rvCurrent = TRUE,
                     !.domain = [Namespace |-> k.Namespace, Name |-> k.Name,
                                 BaseDomain |-> domains[k].BaseDomain,
                                 Status |-> domains[k].Status]]]
    /\ UNCHANGED <<domains, ingresses>>

\* checkDomainDNS, lines 141-144.
CheckDomainDKim(k) ==
    /\ pass[k].pc = "CheckDomainDKim"
    /\ \E r \in ProbeOutcomes :
          LET p == Called(pass[k], "CheckDomainDKim", r.err) IN
          pass' = [pass EXCEPT ![k] =
              IF r.err # NoError THEN ProbeFailed(p, r.err)
              ELSE [p EXCEPT !.dnsStatus.DKIN = r.val, !.pc = "CheckDomainStatsDNS"]]
    /\ UNCHANGED <<domains, ingresses, ext, prev>>

\* checkDomainDNS, lines 146-149.
CheckDomainStatsDNS(k) ==
    /\ pass[k].pc = "CheckDomainStatsDNS"
    /\ \E r \in ProbeOutcomes :
          LET p == Called(pass[k], "CheckDomainStatsDNS", r.err) IN
          pass' = [pass EXCEPT ![k] =
              IF r.err # NoError THEN ProbeFailed(p, r.err)
              ELSE [p EXCEPT !.dnsStatus.Stats = r.val, !.pc = "CheckDomainSPF"]]
    /\ UNCHANGED <<domains, ingresses, ext, prev>>

\* checkDomainDNS, lines 151-158, and Reconcile, lines 74-76.
CheckDomainSPF(k) ==
    /\ pass[k].pc = "CheckDomainSPF"
    /\ \E r \in ProbeOutcomes :
          LET p == Called(pass[k], "CheckDomainSPF", r.err) IN
          pass' = [pass EXCEPT ![k] =
              IF r.err # NoError THEN ProbeFailed(p, r.err)
              ELSE [p EXCEPT !.dnsStatus.SFP = r.val,
                             !.domain.Status = DomainStatus(p.domain.Status,
                                                           [p.dnsStatus EXCEPT !.SFP = r.val]),
                             !.pc = "GetIngress"]]
    /\ UNCHANGED <<domains, ingresses, ext, prev>>

\* The Ingress is out of scope once reconcileIngress has returned.
IngressDone(p) == [p EXCEPT !.ingress = NoIngress, !.pc = "UpdateStatus"]

\* reconcileIngress, lines 100-118, with handleFoundIngress and buildDesiredIngress:
\* the Get of the Ingress and what the pass decides from it.
GetIngress(k) ==
    /\ pass[k].pc = "GetIngress"
    /\ LET stored == ingresses[IngressKey(pass[k].domain)] IN
       \/ \* the API server fails: line 108
          pass' = [pass EXCEPT ![k] =
                      IngressFailed(Called(pass[k], "GetIngress", "Transient"), "Transient")]
       \/ /\ stored.Present
          /\ LET p == [Called(pass[k], "GetIngress", NoError) EXCEPT
                          !.found = TRUE, !.foundDeleting = stored.Deleting] IN
             pass' = [pass EXCEPT ![k] =
                 IF handleFoundIngress(stored, p.domain) = "Delete"
                 THEN [p EXCEPT !.ingress = stored, !.pc = "Delete"]
                 ELSE IngressDone(p)]
       \/ /\ ~stored.Present
          /\ reconcileIngressNotFound(pass[k].domain) = "nil"
          /\ pass' = [pass EXCEPT ![k] = IngressDone(Called(pass[k], "GetIngress", "NotFound"))]
       \/ /\ ~stored.Present
          /\ reconcileIngressNotFound(pass[k].domain) = "Create"
          /\ LET p == Called(pass[k], "GetIngress", "NotFound") IN
             \/ \* ctrl.SetControllerReference fails: lines 116-118, 197-199
                pass' = [pass EXCEPT ![k] =
                    IngressFailed(Called(p, "SetControllerReference", "OwnerRef"), "OwnerRef")]
             \/ pass' = [pass EXCEPT ![k] =
                    [Called(p, "SetControllerReference", NoError) EXCEPT
                        !.ingress = buildDesiredIngress(p.domain), !.pc = "Create"]]
    /\ UNCHANGED <<domains, ingresses, ext, prev>>

\* What the API server keeps of an object that is deleted: an object held by a
\* finalizer only gets its deletion timestamp.
Deleted(ing) == IF ing.Finalizer THEN [ing EXCEPT !.Deleting = TRUE] ELSE NoIngress

\* handleFoundIngress, line 129: r.Delete of the Ingress that was found.
Delete(k) ==
    /\ pass[k].pc = "Delete"
    /\ LET ik == [Namespace |-> pass[k].ingress.Namespace, Name |-> pass[k].ingress.Name] IN
       \/ /\ pass' = [pass EXCEPT ![k] =
                 IngressFailed(Called([pass[k] EXCEPT !.ingress = NoIngress], "Delete", "Transient"),
                               "Transient")]
          /\ UNCHANGED ingresses
       \/ /\ ~ingresses[ik].Present
          /\ pass' = [pass EXCEPT ![k] =
                 IngressFailed(Called([pass[k] EXCEPT !.ingress = NoIngress], "Delete", "NotFound"),
                               "NotFound")]
          /\ UNCHANGED ingresses
       \/ /\ ingresses[ik].Present
          /\ ingresses' = [ingresses EXCEPT ![ik] = Deleted(@)]
          /\ pass' = [pass EXCEPT ![k] = IngressDone(Called(pass[k], "Delete", NoError))]
    /\ UNCHANGED <<domains, ext, prev>>

\* reconcileIngress, line 120: r.Create of the Ingress that was built.
Create(k) ==
    /\ pass[k].pc = "Create"
    /\ LET ik == [Namespace |-> pass[k].ingress.Namespace, Name |-> pass[k].ingress.Name] IN
       \/ /\ pass' = [pass EXCEPT ![k] =
                 IngressFailed(Called([pass[k] EXCEPT !.ingress = NoIngress], "Create", "Transient"),
                               "Transient")]
          /\ UNCHANGED ingresses
       \/ /\ ingresses[ik].Present
          /\ pass' = [pass EXCEPT ![k] =
                 IngressFailed(Called([pass[k] EXCEPT !.ingress = NoIngress], "Create", "AlreadyExists"),
                               "AlreadyExists")]
          /\ UNCHANGED ingresses
       \/ /\ ~ingresses[ik].Present
          /\ ingresses' = [ingresses EXCEPT ![ik] = pass[k].ingress]
          /\ pass' = [pass EXCEPT ![k] = IngressDone(Called(pass[k], "Create", NoError))]
    /\ UNCHANGED <<domains, ext, prev>>

\* Reconcile, lines 83-89: r.Status().Update of the Domain, then the result.
UpdateStatus(k) ==
    /\ pass[k].pc = "UpdateStatus"
    /\ \/ /\ pass' = [pass EXCEPT ![k] =
                 UpdateFailed(Called(pass[k], "UpdateStatus", "Transient"), "Transient")]
          /\ UNCHANGED domains
       \/ /\ ~domains[k].Present
          /\ pass' = [pass EXCEPT ![k] =
                 UpdateFailed(Called(pass[k], "UpdateStatus", "NotFound"), "NotFound")]
          /\ UNCHANGED domains
       \/ \* the stored object is not the version that was read
          /\ domains[k].Present
          /\ ~pass[k].rvCurrent
          /\ pass' = [pass EXCEPT ![k] =
                 UpdateFailed(Called(pass[k], "UpdateStatus", "Conflict"), "Conflict")]
          /\ UNCHANGED domains
       \/ /\ domains[k].Present
          /\ pass[k].rvCurrent
          /\ domains' = [domains EXCEPT ![k].Status = pass[k].domain.Status]
          /\ pass' = [pass EXCEPT ![k] = Reconciled(Called(pass[k], "UpdateStatus", NoError))]
    /\ UNCHANGED <<ingresses, ext, prev>>

\* ------------------------------------------------------------------------
\* The other actors of the API server: users, the garbage collector, the
\* controllers that hold finalizers.

\* A write to the Domain or the stats Ingress of key k by another actor
\* (observation only: the pass never reads ext or prev).
Touched(k) ==
    /\ ext' = [ext EXCEPT ![k] = TRUE]
    /\ UNCHANGED prev

\* Any write to the Domain gives it a new resourceVersion.
DomainWritten(k) == pass' = [pass EXCEPT ![k].rvCurrent = FALSE]

CreateDomain(k) ==
    /\ ~domains[k].Present
    /\ \E b \in BaseDomains :
          domains' = [domains EXCEPT ![k] =
                         [Present |-> TRUE, BaseDomain |-> b, Status |-> ZeroStatus]]
    /\ DomainWritten(k)
    /\ Touched(k)
    /\ UNCHANGED ingresses

SetBaseDomain(k) ==
    /\ domains[k].Present
    /\ \E b \in BaseDomains \ {domains[k].BaseDomain} :
          domains' = [domains EXCEPT ![k].BaseDomain = b]
    /\ DomainWritten(k)
    /\ Touched(k)
    /\ UNCHANGED ingresses

DeleteDomain(k) ==
    /\ domains[k].Present
    /\ domains' = [domains EXCEPT ![k] = NoDomain]
    /\ DomainWritten(k)
    /\ Touched(k)
    /\ UNCHANGED ingresses

\* The garbage collector deletes an Ingress whose owner is gone.
GarbageCollect(k) ==
    /\ ~domains[k].Present
    /\ ingresses[IngressKey(k)].Present
    /\ ingresses[IngressKey(k)].Owner = k
    /\ ~ingresses[IngressKey(k)].Deleting
    /\ ingresses' = [ingresses EXCEPT ![IngressKey(k)] = Deleted(@)]
    /\ Touched(k)
    /\ UNCHANGED <<domains, pass>>

\* Another actor creates an Ingress of the stats name, not owned by the Domain.
ForeignRules ==
    {[Host |-> "mx.acme.com", Path |-> "/", PathType |-> "Prefix", Service |-> "k8nnon", Port |-> 80],
     [Host |-> "mail.acme.com", Path |-> "/", PathType |-> "Prefix", Service |-> "web", Port |-> 8080]}

CreateForeignIngress(k) ==
    /\ ~ingresses[IngressKey(k)].Present
    /\ \E r \in ForeignRules, f \in BOOLEAN :
          ingresses' = [ingresses EXCEPT ![IngressKey(k)] =
              [Present |-> TRUE, Namespace |-> k.Namespace, Name |-> statsIngressName(k),
               Owner |-> NoOwner, Rule |-> r, Deleting |-> FALSE, Finalizer |-> f]]
    /\ Touched(k)
    /\ UNCHANGED <<domains, pass>>

\* Another controller puts its finalizer on the Ingress.
AddFinalizer(k) ==
    /\ ingresses[IngressKey(k)].Present
    /\ ~ingresses[IngressKey(k)].Deleting
    /\ ~ingresses[IngressKey(k)].Finalizer
    /\ ingresses' = [ingresses EXCEPT ![IngressKey(k)].Finalizer = TRUE]
    /\ Touched(k)
    /\ UNCHANGED <<domains, pass>>

\* The holder of the finalizer removes it: an Ingress being deleted is gone.
RemoveFinalizer(k) ==
    /\ ingresses[IngressKey(k)].Present
    /\ ingresses[IngressKey(k)].Finalizer
    /\ ingresses' = [ingresses EXCEPT ![IngressKey(k)] =
           IF @.Deleting THEN NoIngress ELSE [@ EXCEPT !.Finalizer = FALSE]]
    /\ Touched(k)
    /\ UNCHANGED <<domains, pass>>

\* Another actor deletes the Ingress.
DeleteForeign(k) ==
    /\ ingresses[IngressKey(k)].Present
    /\ ~ingresses[IngressKey(k)].Deleting
    /\ ingresses' = [ingresses EXCEPT ![IngressKey(k)] = Deleted(@)]
    /\ Touched(k)
    /\ UNCHANGED <<domains, pass>>

\* ------------------------------------------------------------------------
Engine(k) ==
    \/ Fetch(k)
    \/ CheckDomainDKim(k)
    \/ CheckDomainStatsDNS(k)
    \/ CheckDomainSPF(k)
    \/ GetIngress(k)
    \/ Delete(k)
    \/ Create(k)
    \/ UpdateStatus(k)

Environment(k) ==
    \/ CreateDomain(k)
    \/ SetBaseDomain(k)
    \/ DeleteDomain(k)
    \/ GarbageCollect(k)
    \/ CreateForeignIngress(k)
    \/ AddFinalizer(k)
    \/ RemoveFinalizer(k)
    \/ DeleteForeign(k)

Next == \E k \in SoloKeys : Engine(k) \/ Environment(k)

Spec == Init /\ [][Next]_vars

\* ------------------------------------------------------------------------
\* Vocabulary of the properties.
Done(k) == pass[k].pc = "done"

FoundDomain(k) == pass[k].ops # << >> /\ pass[k].ops[1] = Op("GetDomain", NoError)

\* The pass of k found its Domain and returned no error.
Succeeded(k) == Done(k) /\ FoundDomain(k) /\ pass[k].result.err = NoError

Issued(k, name) == \E i \in DOMAIN pass[k].ops : pass[k].ops[i].op = name

\* A step of the pass of k (every call of a pass is logged; no other actor logs).
PassStep(k) == pass'[k].ops # pass[k].ops

StoredIngress(k) == ingresses[IngressKey(k)]

\* The content section 3 of the specification gives the stats Ingress of k.
CanonicalIngress(k) ==
    [Present |-> TRUE, Namespace |-> k.Namespace, Name |-> k.Name \o "-stats",
     Owner |-> k,
     Rule |-> [Host |-> domains[k].BaseDomain, Path |-> "/", PathType |-> "Prefix",
               Service |-> "k8nnon", Port |-> 80],
     Deleting |-> FALSE, Finalizer |-> FALSE]

ProbeOps == {"CheckDomainDKim", "CheckDomainStatsDNS", "CheckDomainSPF"}

MutationOps == {"Create", "Delete", "UpdateStatus"}

\* ------------------------------------------------------------------------
\* C1 as claimed: after a pass that found the Domain and returned no error
\* (no other writer during the pass), the stats Ingress exists if and only if
\* the statistics-DNS probe of the pass was true, whatever the store held
\* before, an Ingress found with its deletion in progress included.
C1_ExistsIffStats ==
    \A k \in Keys :
        Succeeded(k) /\ ~ext[k] =>
            (StoredIngress(k).Present <=> pass[k].dnsStatus.Stats)

\* C1 as amended: after such a pass the stats Ingress exists if the probe was
\* true, and if the probe was false it is absent or its deletion is in
\* progress (it was found with its deletion in progress and left alone, or
\* the pass's Delete left it to its finalizer).
C1_ExistsIffStatsOrDeleting ==
    \A k \in Keys :
        Succeeded(k) /\ ~ext[k] =>
            /\ pass[k].dnsStatus.Stats => StoredIngress(k).Present
            /\ ~pass[k].dnsStatus.Stats =>
                   (~StoredIngress(k).Present \/ StoredIngress(k).Deleting)
            /\ StoredIngress(k).Present /\ StoredIngress(k).Deleting =>
                   (pass[k].foundDeleting \/ Issued(k, "Delete"))

\* A pass with a false probe found the Ingress with its deletion in progress
\* and returned without error, the Ingress still stored.
C1_Witness ==
    \E k \in Keys :
        /\ Succeeded(k) /\ ~ext[k]
        /\ ~pass[k].dnsStatus.Stats
        /\ pass[k].found /\ pass[k].foundDeleting
        /\ StoredIngress(k).Present

\* A probe error is the last call of its pass, which returns it with one minute.
C2_ProbeErrorEndsPass ==
    \A k \in Keys : \A i \in DOMAIN pass[k].ops :
        pass[k].ops[i].op \in ProbeOps /\ pass[k].ops[i].err # NoError =>
            /\ Done(k)
            /\ i = Len(pass[k].ops)
            /\ \A j \in DOMAIN pass[k].ops : pass[k].ops[j].op \notin MutationOps
            /\ pass[k].result = [err |-> pass[k].ops[i].err, RequeueAfter |-> Minute]

\* The Get of the Domain and the probes write nothing.
C2_ProbesWriteNothing ==
    \A k \in Keys :
        PassStep(k) /\ pass'[k].ops # << >>
        /\ pass'[k].ops[Len(pass'[k].ops)].op \in ProbeOps \cup {"GetDomain"} =>
            domains' = domains /\ ingresses' = ingresses

\* C2: when a probe returns an error the pass ends there, with that error and
\* a requested delay of one minute, having issued no Create, no Delete and no
\* status update; and no step of a pass up to and including its probes
\* changes a stored Domain or Ingress.
C2_AbortOnProbeFailure == [](C2_ProbeErrorEndsPass) /\ [][C2_ProbesWriteNothing]_vars

\* The statistics-DNS probe failed in a pass that had read a Domain whose
\* Ingress exists.
C2_Witness ==
    \E k \in Keys :
        /\ Done(k)
        /\ pass[k].ops[Len(pass[k].ops)] = Op("CheckDomainStatsDNS", "Lookup")
        /\ StoredIngress(k).Present
        /\ domains[k].Status.DNS.Stats

\* The pass of k follows, with no other writer in between, a pass that found
\* the Domain and returned no error.
SecondPass(k) == prev[k].ok /\ ~ext[k]

\* With the probe results of the pass before, no Create and no Delete is issued.
C3_SecondPassIssuesNothing ==
    \A k \in Keys :
        /\ SecondPass(k)
        /\ pass[k].pc \in {"GetIngress", "Delete", "Create", "UpdateStatus", "done"}
        /\ FoundDomain(k)
        /\ \A i \in DOMAIN pass[k].ops :
               pass[k].ops[i].op \in ProbeOps => pass[k].ops[i].err = NoError
        /\ pass[k].dnsStatus = prev[k].dnsStatus
        => /\ ~Issued(k, "Create") /\ ~Issued(k, "Delete")
           /\ pass[k].pc \notin {"Create", "Delete"}
           /\ domains[k].Status.DNS = prev[k].dnsStatus

\* With the probe results of the pass before, no step writes to the store.
C3_SecondPassWritesNothing ==
    \A k \in Keys :
        /\ PassStep(k)
        /\ prev'[k].ok /\ ~ext'[k]
        /\ pass[k].pc \in {"GetIngress", "Delete", "Create", "UpdateStatus"} =>
               pass[k].dnsStatus = prev[k].dnsStatus
        => domains' = domains /\ ingresses' = ingresses

\* C3: a pass that follows a successful pass with the same probe results and
\* no other writer issues no Create and no Delete, and none of its steps
\* changes a stored Domain (its status included) or Ingress.
C3_Idempotence == [](C3_SecondPassIssuesNothing) /\ [][C3_SecondPassWritesNothing]_vars

\* Two passes in a row with a true statistics-DNS probe, the second returned.
C3_Witness ==
    \E k \in Keys :
        /\ SecondPass(k) /\ Succeeded(k)
        /\ pass[k].dnsStatus = prev[k].dnsStatus
        /\ pass[k].dnsStatus.Stats
        /\ StoredIngress(k).Present

\* C4 as claimed: when the probe goes from true to false between two
\* successful passes (no other writer), the Ingress is gone after the second;
\* when a pass that deleted the Ingress is followed by a successful pass with
\* a true probe, that pass creates the Ingress, with the canonical content.
C4_DeletedThenRecreated ==
    \A k \in Keys :
        SecondPass(k) /\ Succeeded(k) =>
            /\ prev[k].dnsStatus.Stats /\ ~pass[k].dnsStatus.Stats =>
                   ~StoredIngress(k).Present
            /\ prev[k].deleted /\ pass[k].dnsStatus.Stats =>
                   Issued(k, "Create") /\ StoredIngress(k) = CanonicalIngress(k)

\* C4 as amended: in the first case the pass finds the Ingress and, unless its
\* deletion was already in progress, issues a Delete, after which the Ingress
\* is absent or, held by a finalizer, marked as being deleted; in the second
\* case the pass creates the canonical Ingress provided its lookup does not
\* find the Ingress (still held by a finalizer).
C4_DeleteIssuedThenRecreatedIfGone ==
    \A k \in Keys :
        SecondPass(k) /\ Succeeded(k) =>
            /\ prev[k].dnsStatus.Stats /\ ~pass[k].dnsStatus.Stats =>
                   /\ pass[k].found
                   /\ ~pass[k].foundDeleting => Issued(k, "Delete")
                   /\ ~StoredIngress(k).Present \/ StoredIngress(k).Deleting
            /\ prev[k].deleted /\ pass[k].dnsStatus.Stats =>
                   IF pass[k].found
                   THEN pass[k].foundDeleting /\ ~Issued(k, "Create")
                   ELSE Issued(k, "Create") /\ StoredIngress(k) = CanonicalIngress(k)

\* A pass deleted the Ingress and the next pass, its probe true, created it.
C4_Witness ==
    \E k \in Keys :
        /\ SecondPass(k) /\ Succeeded(k)
        /\ prev[k].deleted /\ ~prev[k].dnsStatus.Stats
        /\ pass[k].dnsStatus.Stats
        /\ Issued(k, "Create")
        /\ StoredIngress(k) = CanonicalIngress(k)

\* C5: a successful pass requests one hour when the three flags of the status
\* it has persisted are true and one minute otherwise.
C5_IntervalPolicy ==
    \A k \in Keys :
        Succeeded(k) =>
            LET s == pass[k].domain.Status.DNS IN
            /\ pass[k].ops[Len(pass[k].ops)] = Op("UpdateStatus", NoError)
            /\ ~ext[k] => domains[k].Status.DNS = s
            /\ pass[k].result.RequeueAfter =
                   IF s = [DKIN |-> TRUE, Stats |-> TRUE, SFP |-> TRUE] THEN Hour ELSE Minute

\* A pass persisted a status with exactly one flag false and requested a minute.
C5_Witness ==
    \E k \in Keys :
        /\ Succeeded(k) /\ ~ext[k]
        /\ domains[k].Status.DNS = [DKIN |-> TRUE, Stats |-> TRUE, SFP |-> FALSE]
        /\ pass[k].result.RequeueAfter = Minute

LastOp(k) == pass[k].ops[Len(pass[k].ops)]

\* A failed Get of the Domain is the only call of its pass.
C6_FetchErrorEndsPass ==
    \A k \in Keys :
        pass[k].ops # << >> /\ pass[k].ops[1].err # NoError =>
            /\ pass[k].ops[1].op = "GetDomain"
            /\ Done(k)
            /\ Len(pass[k].ops) = 1
            /\ pass[k].result =
                   [err |-> IF pass[k].ops[1].err = "NotFound" THEN NoError
                            ELSE pass[k].ops[1].err,
                    RequeueAfter |-> 0]

\* The Get of the Domain writes nothing.
C6_FetchWritesNothing ==
    \A k \in Keys :
        PassStep(k) /\ Len(pass'[k].ops) = 1 => domains' = domains /\ ingresses' = ingresses

\* C6: when the Get of the Domain fails the pass ends there, having called no
\* probe and issued no Create, Delete or status update: with no error and no
\* requested delay when the Domain is not found, with the error of the Get
\* (and no requested delay) otherwise; and the Get changes nothing stored.
C6_AbsentDomain == [](C6_FetchErrorEndsPass) /\ [][C6_FetchWritesNothing]_vars

\* A pass for a Domain that is gone, its Ingress still stored, has returned.
C6_Witness ==
    \E k \in Keys :
        /\ Done(k)
        /\ pass[k].ops = <<Op("GetDomain", "NotFound")>>
        /\ pass[k].result = NoResult
        /\ ~domains[k].Present
        /\ StoredIngress(k).Present

\* C7 as claimed: when the Delete of the pass returns not-found (the Ingress
\* that was found is gone), the pass goes on to the status update and returns
\* that update's outcome.
C7_DeleteNotFoundIsSuccess ==
    \A k \in Keys :
        Done(k) /\ (\E i \in DOMAIN pass[k].ops : pass[k].ops[i] = Op("Delete", "NotFound"))
        => Issued(k, "UpdateStatus") /\ pass[k].result.err # "NotFound"

\* C8 as claimed: a pass ends with no error, or with an error and a requested
\* delay of one minute, whichever stage the error comes from.
C8_ErrorCarriesRetryDelay ==
    \A k \in Keys :
        Done(k) =>
            \/ pass[k].result.err = NoError /\ pass[k].result.RequeueAfter \in {Minute, Hour}
            \/ pass[k].result.err # NoError /\ pass[k].result.RequeueAfter = Minute

\* C8 as amended: a pass ends with no error (and the delay of the interval
\* policy, or no delay when the Domain is not found) or with the error of the
\* call that failed; that error carries a requested delay of one minute when
\* it comes from a probe and no requested delay when it comes from the Get of
\* the Domain, the Ingress step or the status update.
C8_OutputSignal ==
    \A k \in Keys :
        Done(k) =>
            LET last == LastOp(k) IN
            IF last = Op("GetDomain", "NotFound") THEN pass[k].result = NoResult
            ELSE IF last.err = NoError
            THEN /\ last.op = "UpdateStatus"
                 /\ pass[k].result.err = NoError
                 /\ pass[k].result.RequeueAfter \in {Minute, Hour}
            ELSE /\ pass[k].result.err = last.err
                 /\ pass[k].result.RequeueAfter = IF last.op \in ProbeOps THEN Minute ELSE 0

\* A pass returned the conflict of its status update, with no requested delay.
C8_Witness ==
    \E k \in Keys :
        /\ Done(k)
        /\ LastOp(k) = Op("UpdateStatus", "Conflict")
        /\ pass[k].result = [err |-> "Conflict", RequeueAfter |-> 0]

\* Stage of each call of a pass: Fetch, Probe, Converge, Persist.
Stage(op) ==
    CASE op = "GetDomain" -> 1
      [] op = "CheckDomainDKim" -> 2
      [] op = "CheckDomainStatsDNS" -> 3
      [] op = "CheckDomainSPF" -> 4
      [] op = "GetIngress" -> 5
      [] op = "SetControllerReference" -> 6
      [] op \in {"Create", "Delete"} -> 7
      [] op = "UpdateStatus" -> 8

\* A call that failed; not-found from the lookup of the Ingress is an answer.
Failure(o) == o.err # NoError /\ o # Op("GetIngress", "NotFound")

\* Calls in stage order, a failed call last.
C9_CallsInOrder ==
    \A k \in Keys :
        /\ \A i, j \in DOMAIN pass[k].ops :
               i < j => /\ Stage(pass[k].ops[i].op) < Stage(pass[k].ops[j].op)
                        /\ ~Failure(pass[k].ops[i])
        /\ pass[k].ops # << >> /\ Failure(LastOp(k)) => Done(k)
        /\ Succeeded(k) => LastOp(k) = Op("UpdateStatus", NoError)
        /\ pass[k].pc = "UpdateStatus" => Stage(LastOp(k).op) \in {5, 7}

\* The stored Domain changes in no step of a pass but a successful status update.
C9_OnlyUpdateWritesStatus ==
    \A k \in Keys :
        PassStep(k) /\ domains' # domains =>
            /\ pass[k].pc = "UpdateStatus"
            /\ pass'[k].ops = Append(pass[k].ops, Op("UpdateStatus", NoError))

\* C9: the calls of a pass are made in stage order, each at most once, a
\* failed call is the last call of its pass (so that a failure of the Ingress
\* step leaves no status update issued), a pass that returns without error
\* ended with its status update; and only the status update step of a pass
\* changes the stored status.
C9_StageOrder == [](C9_CallsInOrder) /\ [][C9_OnlyUpdateWritesStatus]_vars

\* The Create of a pass failed, and the pass returned its error.
C9_Witness ==
    \E k \in Keys :
        /\ Done(k)
        /\ LastOp(k) = Op("Create", "AlreadyExists")
        /\ pass[k].result.err = "AlreadyExists"
        /\ domains[k].Present
        /\ domains[k].Status.DNS # pass[k].dnsStatus

\* C10: after a pass that found the Domain and returned no error (no other
\* writer during the pass), each stored status flag is the result of its
\* probe in that pass.
C10_StatusReplaced ==
    \A k \in Keys :
        Succeeded(k) /\ ~ext[k] =>
            /\ domains[k].Present
            /\ domains[k].Status = [DNS |-> pass[k].dnsStatus]

\* A pass stored the opposite of every flag that the pass before it had stored.
C10_Witness ==
    \E k \in Keys :
        /\ SecondPass(k) /\ Succeeded(k)
        /\ prev[k].dnsStatus = [DKIN |-> TRUE, Stats |-> FALSE, SFP |-> TRUE]
        /\ domains[k].Status.DNS = [DKIN |-> FALSE, Stats |-> TRUE, SFP |-> FALSE]

\* C13: the probes of a pass are called in the order signing, statistics-DNS,
\* SPF, each at most once and each only after the one before it returned no
\* error; a probe error is the last call of its pass, and the status computed
\* by that pass is the all-false zero value, returned with the error.
C13_ProbesInOrder ==
    \A k \in Keys : \A i \in DOMAIN pass[k].ops :
        LET o == pass[k].ops[i] IN
        /\ o.op = "CheckDomainDKim" => i = 2 /\ pass[k].ops[1] = Op("GetDomain", NoError)
        /\ o.op = "CheckDomainStatsDNS" => i = 3 /\ pass[k].ops[2] = Op("CheckDomainDKim", NoError)
        /\ o.op = "CheckDomainSPF" => i = 4 /\ pass[k].ops[3] = Op("CheckDomainStatsDNS", NoError)
        /\ o.op \in ProbeOps /\ o.err # NoError =>
               /\ i = Len(pass[k].ops)
               /\ pass[k].dnsStatus = ZeroDNS
               /\ pass[k].result.err = o.err

\* The statistics-DNS probe failed after the signing probe had returned.
C13_Witness ==
    \E k \in Keys :
        /\ Done(k)
        /\ pass[k].ops = <<Op("GetDomain", NoError), Op("CheckDomainDKim", NoError),
                           Op("CheckDomainStatsDNS", "Lookup")>>
        /\ pass[k].dnsStatus = ZeroDNS

\* The number of calls of the pass of k to the operation called name.
Count(k, name) == Cardinality({i \in DOMAIN pass[k].ops : pass[k].ops[i].op = name})

\* The answer of the lookup of the Ingress in the pass of k.
Lookup(k) == pass[k].ops[CHOOSE i \in DOMAIN pass[k].ops : pass[k].ops[i].op = "GetIngress"]

\* reconcileIngress has returned in the pass of k.
IngressStepOver(k) == Issued(k, "GetIngress") /\ pass[k].pc \in {"UpdateStatus", "done"}

\* C14 as claimed: the Ingress step issues at most one Create or Delete,
\* chosen by the four-case table; the case "not found, probe true" gives
\* exactly one Create.
C14_FourCaseTable ==
    \A k \in Keys :
        IngressStepOver(k) =>
            LET stats == pass[k].dnsStatus.Stats
                creates == Count(k, "Create")
                deletes == Count(k, "Delete")
            IN  /\ creates + deletes <= 1
                /\ Lookup(k).err = "Transient" =>
                       creates + deletes = 0 /\ pass[k].result.err = "Transient"
                /\ Lookup(k).err = NoError =>
                       /\ creates = 0
                       /\ deletes = IF ~stats /\ ~pass[k].foundDeleting THEN 1 ELSE 0
                /\ Lookup(k).err = "NotFound" =>
                       /\ deletes = 0
                       /\ creates = IF stats THEN 1 ELSE 0

\* C14 as amended: as claimed, but in the case "not found, probe true" the
\* one Create is issued only if the owner reference could be set; if
\* SetControllerReference fails the pass issues no Create and returns the error.
C14_FourCaseTableUnlessBuildFails ==
    \A k \in Keys :
        IngressStepOver(k) =>
            LET stats == pass[k].dnsStatus.Stats
                creates == Count(k, "Create")
                deletes == Count(k, "Delete")
                built == Op("SetControllerReference", NoError)
                            \in {pass[k].ops[i] : i \in DOMAIN pass[k].ops}
            IN  /\ creates + deletes <= 1
                /\ Lookup(k).err = "Transient" =>
                       creates + deletes = 0 /\ pass[k].result.err = "Transient"
                /\ Lookup(k).err = NoError =>
                       /\ pass[k].found
                       /\ creates = 0
                       /\ deletes = IF ~stats /\ ~pass[k].foundDeleting THEN 1 ELSE 0
                /\ Lookup(k).err = "NotFound" =>
                       /\ ~pass[k].found
                       /\ deletes = 0
                       /\ creates = IF stats /\ built THEN 1 ELSE 0
                       /\ stats /\ ~built => pass[k].result.err = "OwnerRef"

\* A pass whose probe was false found the Ingress, its deletion not in
\* progress, and issued its one Delete.
C14_Witness ==
    \E k \in Keys :
        /\ IngressStepOver(k)
        /\ pass[k].found /\ ~pass[k].foundDeleting
        /\ ~pass[k].dnsStatus.Stats
        /\ Count(k, "Delete") = 1 /\ Count(k, "Create") = 0

\* C15: a pass makes each of its calls at most once (one Get of the Domain,
\* three probes, one lookup of the Ingress, one Create or Delete, one status
\* update), makes no call after a call that failed, and while it has not
\* returned it has a next step to take.
C15_NoRetry ==
    \A k \in Keys :
        /\ \A i, j \in DOMAIN pass[k].ops :
               pass[k].ops[i].op = pass[k].ops[j].op => i = j
        /\ Count(k, "Create") + Count(k, "Delete") <= 1
        /\ Len(pass[k].ops) <= Cardinality(ProbeOps) + 5
        /\ \A i \in DOMAIN pass[k].ops : Failure(pass[k].ops[i]) => i = Len(pass[k].ops)
        /\ pass[k].pc \notin {"idle", "done"} => ENABLED Engine(k)

\* A pass that made every call it can make has returned.
C15_Witness ==
    \E k \in Keys :
        /\ Succeeded(k)
        /\ Len(pass[k].ops) = Cardinality(ProbeOps) + 5
        /\ Issued(k, "Create")

\* The name and namespace section 3 of the specification gives the stats
\* Ingress of k.
StatsKey(k) == [Namespace |-> k.Namespace, Name |-> k.Name \o "-stats"]

\* The step is the successful call named name of the pass of k.
Calls(k, name) ==
    /\ PassStep(k)
    /\ pass'[k].ops = Append(pass[k].ops, Op(name, NoError))

\* C17 as claimed: a Delete of a pass removes (or marks as being deleted) the
\* Ingress <domain-name>-stats only if that Ingress is owned by the Domain of
\* the pass; an Ingress of that name without owner reference to the Domain is
\* never deleted by a pass.
C17_DeleteOnlyOwned ==
    [][\A k \in Keys : Calls(k, "Delete") => ingresses[StatsKey(k)].Owner = k]_vars

\* The rule section 3 of the specification gives the stats Ingress of a Domain
\* whose base domain is host.
CanonicalRule(host) ==
    [Host |-> host, Path |-> "/", PathType |-> "Prefix", Service |-> "k8nnon", Port |-> 80]

\* C18 as claimed: whenever the Ingress owned by the Domain exists after a
\* successful pass (no other writer during the pass), its rule is the
\* canonical rule for the base domain the pass fetched, also after the base
\* domain was changed while the Ingress existed.
C18_ContentCanonical ==
    \A k \in Keys :
        Succeeded(k) /\ ~ext[k] /\ StoredIngress(k).Present /\ StoredIngress(k).Owner = k =>
            StoredIngress(k).Rule = CanonicalRule(pass[k].domain.BaseDomain)

\* After a successful pass that created the Ingress, the Ingress has the
\* canonical rule for the stored base domain.
C18_CreatedIsCanonical ==
    \A k \in Keys :
        Succeeded(k) /\ ~ext[k] /\ Issued(k, "Create") =>
            /\ StoredIngress(k).Present
            /\ StoredIngress(k).Rule = CanonicalRule(domains[k].BaseDomain)

\* A Create stores the canonical rule for the fetched base domain; no other
\* step of a pass changes the rule of an Ingress that stays stored.
C18_OnlyCreateWritesRule ==
    \A k \in Keys :
        /\ Calls(k, "Create") =>
               ingresses'[StatsKey(k)].Rule = CanonicalRule(pass[k].domain.BaseDomain)
        /\ PassStep(k) /\ ingresses[StatsKey(k)].Present /\ ingresses'[StatsKey(k)].Present =>
               ingresses'[StatsKey(k)].Rule = ingresses[StatsKey(k)].Rule

\* C18 as amended: an Ingress that a pass creates has the canonical content
\* for the Domain as fetched in that pass; an Ingress that a pass finds is
\* left with the content it has, so that after a change of the base domain it
\* keeps the rule of the old base domain for as long as it exists.
C18_ContentCanonicalWhenCreated ==
    [](C18_CreatedIsCanonical) /\ [][C18_OnlyCreateWritesRule]_vars

\* A successful pass with a true probe found the Ingress it owns with the rule
\* of another base domain than the one it fetched, and left it so.
C18_Witness ==
    \E k \in Keys :
        /\ Succeeded(k) /\ ~ext[k]
        /\ pass[k].found /\ pass[k].dnsStatus.Stats
        /\ StoredIngress(k).Present /\ StoredIngress(k).Owner = k
        /\ StoredIngress(k).Rule = CanonicalRule("mail.acme.com")
        /\ pass[k].domain.BaseDomain = "mx.acme.com"

\* A failed SetControllerReference is the last call of its pass: no Create, no
\* status update, the error returned.
C19_OwnerErrorEndsPass ==
    \A k \in Keys : \A i \in DOMAIN pass[k].ops :
        pass[k].ops[i] = Op("SetControllerReference", "OwnerRef") =>
            /\ i = Len(pass[k].ops)
            /\ Done(k)
            /\ pass[k].result.err = "OwnerRef"
            /\ ~Issued(k, "Create") /\ ~Issued(k, "UpdateStatus")

\* An Ingress with an owner is the stats Ingress of its owner, and once the
\* owner is gone the garbage collector can delete it.
C19_OwnedIsCollectable ==
    \A k \in Keys :
        /\ \A i \in DOMAIN ingresses :
               ingresses[i].Present /\ ingresses[i].Owner = k =>
                   /\ i = StatsKey(k)
                   /\ ingresses[i].Namespace = k.Namespace
                   /\ ingresses[i].Name = k.Name \o "-stats"
        /\ ~domains[k].Present /\ ingresses[StatsKey(k)].Present
           /\ ingresses[StatsKey(k)].Owner = k /\ ~ingresses[StatsKey(k)].Deleting =>
               ENABLED GarbageCollect(k)

\* A Create is made after SetControllerReference returned no error, and stores
\* an Ingress owned by the Domain of the pass under its stats name.
C19_CreateStoresOwned ==
    \A k \in Keys :
        Calls(k, "Create") =>
            /\ LastOp(k) = Op("SetControllerReference", NoError)
            /\ ingresses'[StatsKey(k)].Present
            /\ ingresses'[StatsKey(k)].Owner = k
            /\ ingresses'[StatsKey(k)].Namespace = k.Namespace
            /\ ingresses'[StatsKey(k)].Name = k.Name \o "-stats"
            /\ \A i \in DOMAIN ingresses : i # StatsKey(k) => ingresses'[i] = ingresses[i]

InitQuiet ==
    /\ \E b \in BaseDomains :
          domains = [k \in Keys |->
                        IF k \in SoloKeys
                        THEN [Present |-> TRUE, BaseDomain |-> b, Status |-> ZeroStatus]
                        ELSE NoDomain]
    /\ ingresses = [i \in IngressKeys |-> NoIngress]
    /\ pass = [k \in Keys |-> IdlePass]
    /\ ext = [k \in Keys |-> FALSE]
    /\ prev = [k \in Keys |-> NoPrev]

NextQuiet == \E k \in SoloKeys : Engine(k)

SpecQuiet == InitQuiet /\ [][NextQuiet]_vars

\* C20 as claimed: between the passes of a key, after any sequence of
\* successful and failed passes with no other writer, the Ingress exists if
\* and only if the stored statistics-DNS flag is true.
C20_IngressAgreesWithStoredStatus ==
    \A k \in SoloKeys :
        pass[k].pc \in {"idle", "done"} =>
            (StoredIngress(k).Present <=> domains[k].Status.DNS.Stats)

\* After a pass that returned no error the Ingress agrees with the stored
\* flag; after a pass whose Ingress step returned no error it agrees with the
\* probe of that pass, whatever became of the status update.
C20_AgreesAfterSuccess ==
    \A k \in SoloKeys :
        /\ Succeeded(k) => (StoredIngress(k).Present <=> domains[k].Status.DNS.Stats)
        /\ Done(k) /\ LastOp(k).op = "UpdateStatus" =>
               (StoredIngress(k).Present <=> pass[k].dnsStatus.Stats)

\* A step of a pass that creates or removes the Ingress makes it agree with
\* the probe of the pass, and the stored flag changes only to that probe.
C20_WritesFollowProbe ==
    \A k \in SoloKeys :
        /\ PassStep(k) /\ ingresses'[StatsKey(k)].Present # ingresses[StatsKey(k)].Present =>
               ingresses'[StatsKey(k)].Present = pass[k].dnsStatus.Stats
        /\ PassStep(k) /\ domains'[k] # domains[k] =>
               domains'[k].Status.DNS = pass[k].dnsStatus

\* C20 as amended: with no other writer, after every pass that returns
\* without error the Ingress exists if and only if the stored statistics-DNS
\* flag is true; a pass whose Ingress step succeeded and whose status update
\* failed leaves its Create or Delete behind, so that the Ingress then agrees
\* with the probe of that pass and may disagree with the stored flag until a
\* later pass returns without error.
C20_IngressAgreesAfterSuccessfulPass ==
    [](C20_AgreesAfterSuccess) /\ [][C20_WritesFollowProbe]_vars

\* The status update of a pass failed after the pass had created the Ingress:
\* the Ingress is stored and the stored flag is still false.
C20_Witness ==
    \E k \in SoloKeys :
        /\ Done(k)
        /\ LastOp(k) = Op("UpdateStatus", "Transient")
        /\ Issued(k, "Create")
        /\ StoredIngress(k).Present
        /\ ~domains[k].Status.DNS.Stats

\* ------------------------------------------------------------------------
\* Concurrent passes of different keys, at most one pass per key: the
\* Domains of all keys have just been created and only their passes run.
InitConcurrent ==
    /\ domains = [k \in Keys |->
                     [Present |-> TRUE,
                      BaseDomain |-> IF k = Acme THEN "mail.acme.com" ELSE "mx.acme.com",
                      Status |-> ZeroStatus]]
    /\ ingresses = [i \in IngressKeys |-> NoIngress]
    /\ pass = [k \in Keys |-> IdlePass]
    /\ ext = [k \in Keys |-> FALSE]
    /\ prev = [k \in Keys |-> NoPrev]

\* The probe inputs of the concurrent passes: the signing and the SPF probe
\* return true or an error (their false results play no part in the Ingress
\* step); the statistics-DNS probe returns true, false or an error.
ProbedTrue(k, flag) ==
    pass'[k].ops[Len(pass'[k].ops)].err = NoError => pass'[k].dnsStatus[flag]

NextConcurrent ==
    \E k \in Keys :
        \/ Fetch(k)
        \/ CheckDomainDKim(k) /\ ProbedTrue(k, "DKIN")
        \/ CheckDomainStatsDNS(k)
        \/ CheckDomainSPF(k) /\ ProbedTrue(k, "SFP")
        \/ GetIngress(k)
        \/ Delete(k)
        \/ Create(k)
        \/ UpdateStatus(k)

SpecConcurrent == InitConcurrent /\ [][NextConcurrent]_vars

\* ------------------------------------------------------------------------
\* The probe result of a pass is written by the probes of that pass only: a
\* step of the pass of k that changes it is a Fetch (which clears it) or one
\* of the three probes, and a step of another pass leaves it alone.
C11_ProbeResultIsOwn ==
    \A k \in Keys :
        pass'[k].dnsStatus # pass[k].dnsStatus =>
            /\ PassStep(k)
            /\ pass[k].pc \in {"idle", "done", "CheckDomainDKim",
                               "CheckDomainStatsDNS", "CheckDomainSPF"}

\* The lookup of the Ingress decides from what it finds and from the
\* statistics-DNS result probed in the same pass: Delete for a live Ingress
\* and a false result, the build and Create for no Ingress and a true result.
C11_DecisionFromProbe ==
    \A k \in Keys :
        /\ Calls(k, "GetIngress") =>
               (pass'[k].pc = "Delete" <=>
                   ~ingresses[StatsKey(k)].Deleting /\ ~pass[k].dnsStatus.Stats)
        /\ (/\ PassStep(k)
            /\ pass[k].pc = "GetIngress"
            /\ pass'[k].ops[Len(pass[k].ops) + 1] = Op("GetIngress", "NotFound")) =>
               (Len(pass'[k].ops) = Len(pass[k].ops) + 2 /\ pass'[k].pc \in {"Create", "done"}
                   <=> pass[k].dnsStatus.Stats)

\* The status update stores the result probed in the same pass.
C11_PersistsProbe ==
    \A k \in Keys :
        /\ Calls(k, "UpdateStatus") => domains'[k].Status = [DNS |-> pass[k].dnsStatus]
        /\ PassStep(k) /\ domains'[k] # domains[k] => Calls(k, "UpdateStatus")

\* A pass deletes only after a false and creates only after a true
\* statistics-DNS result of its own.
C11_MutationAgreesWithProbe ==
    \A k \in Keys :
        /\ pass[k].pc = "Delete" \/ Issued(k, "Delete") => ~pass[k].dnsStatus.Stats
        /\ pass[k].pc = "Create" \/ Issued(k, "Create") => pass[k].dnsStatus.Stats

\* C11: with passes of different keys running concurrently and at most one
\* pass per key, the create/delete decision of the Ingress step depends only
\* on the statistics-DNS result probed in the same pass (never on the stored
\* status or on the result of another pass), and the status the pass then
\* stores is that same computed status.
C11_StatusFlowsLinearly ==
    /\ [](C11_MutationAgreesWithProbe)
    /\ [][C11_ProbeResultIsOwn /\ C11_DecisionFromProbe /\ C11_PersistsProbe]_vars

\* A pass has deleted the Ingress and stored a false flag where its previous
\* pass had stored a true one, while the pass of another key, whose probe
\* returned true, is between its Create and its status update.
C11_Witness ==
    \E k \in Keys : \E j \in Keys \ {k} :
        /\ Succeeded(k)
        /\ Issued(k, "Delete")
        /\ prev[k].ok /\ prev[k].dnsStatus.Stats
        /\ ~domains[k].Status.DNS.Stats
        /\ pass[j].pc = "UpdateStatus"
        /\ Issued(j, "Create")
        /\ ~domains[j].Status.DNS.Stats

\* ------------------------------------------------------------------------
\* What a step of the pass of k leaves alone: the Domain and the pass of
\* every other key, every Ingress but <k's name>-stats in k's namespace, and
\* the existence and the spec of its own Domain.
C16_PassFrame ==
    \A k \in Keys :
        PassStep(k) =>
            /\ \A j \in Keys \ {k} : domains'[j] = domains[j] /\ pass'[j] = pass[j]
            /\ \A i \in DOMAIN ingresses : i # StatsKey(k) => ingresses'[i] = ingresses[i]
            /\ domains'[k].Present = domains[k].Present
            /\ domains'[k].BaseDomain = domains[k].BaseDomain

\* No Domain is deleted, and every Ingress stored is the stats Ingress of the
\* Domain that owns it.
C16_StoreShape ==
    /\ \A k \in Keys : domains[k].Present
    /\ \A i \in DOMAIN ingresses :
           ingresses[i].Present =>
               /\ i = StatsKey(ingresses[i].Owner)
               /\ ingresses[i].Owner \in Keys
               /\ ingresses[i].Namespace = i.Namespace /\ ingresses[i].Name = i.Name

\* C16: under concurrent passes of different keys, a pass of key K writes
\* only the status of Domain K and the Ingress K-stats in K's namespace; it
\* never deletes a Domain, never changes the spec of a Domain, and leaves the
\* status and the Ingress (and the pass) of every other key unchanged.
C16_FrameOfAPass ==
    [](C16_StoreShape) /\ [][C16_PassFrame]_vars

\* The pass of one key has deleted its Ingress while the Ingress that the
\* pass of the other key created is still stored, each Domain with the flag
\* of its own pass.
C16_Witness ==
    \E k \in Keys : \E j \in Keys \ {k} :
        /\ Succeeded(k) /\ Issued(k, "Delete")
        /\ ~ingresses[StatsKey(k)].Present
        /\ ~domains[k].Status.DNS.Stats
        /\ Succeeded(j) /\ Issued(j, "Create")
        /\ ingresses[StatsKey(j)].Present
        /\ ingresses[StatsKey(j)].Rule.Host = domains[j].BaseDomain
        /\ domains[j].Status.DNS.Stats

\* ------------------------------------------------------------------------
\* Convergence.  A Domain has just been created and stays; its passes run,
\* and another actor may put a finalizer on the Ingress and remove it.
NextLive ==
    \E k \in SoloKeys : Engine(k) \/ AddFinalizer(k) \/ RemoveFinalizer(k)

\* The dispatcher triggers the key again after every requested delay and
\* after every error, and every call of a pass returns: a pass that can take
\* a step takes one.  Nothing is assumed of the other actor.
SpecLive ==
    /\ InitQuiet
    /\ [][NextLive]_vars
    /\ \A k \in SoloKeys : WF_vars(Engine(k))

\* The results the three probes can settle on.
ProbeResults == [DKIN : BOOLEAN, Stats : BOOLEAN, SFP : BOOLEAN]

\* A step of a pass in which no call fails and every probe that is called
\* returns its flag of results.
SettledStep(results) ==
    \E k \in SoloKeys :
        /\ PassStep(k)
        /\ \A i \in DOMAIN pass'[k].ops : ~Failure(pass'[k].ops[i])
        /\ Calls(k, "CheckDomainDKim") => pass'[k].dnsStatus.DKIN = results.DKIN
        /\ Calls(k, "CheckDomainStatsDNS") => pass'[k].dnsStatus.Stats = results.Stats
        /\ Calls(k, "CheckDomainSPF") => pass'[k].dnsStatus.SFP = results.SFP

\* From some point on every step is a settled step: store operations and
\* probes have stopped failing, the probes return results, nobody else writes.
Settles(results) == <>[][SettledStep(results)]_vars

\* A Domain that exists keeps being reconciled: every pass returns, and
\* once nothing fails any more, passes get the Domain and return without
\* error again and again.
C12_KeepsReconciling ==
    \A k \in SoloKeys :
        /\ []<>Done(k)
        /\ \A results \in ProbeResults :
               Settles(results) =>
                   []<>(pass[k].pc = "CheckDomainDKim") /\ []<>Succeeded(k)

\* C12 as claimed: once the probes return fixed results and nothing fails,
\* eventually and then forever the stored status equals those results and
\* the Ingress exists if and only if the statistics-DNS result is true.
C12_ConvergesToExistsIffStats ==
    \A results \in ProbeResults :
        Settles(results) =>
            <>[](\A k \in SoloKeys :
                    /\ domains[k].Status = [DNS |-> results]
                    /\ StoredIngress(k).Present <=> results.Stats)

\* The stored status equals results; the Ingress exists if the
\* statistics-DNS result is true, and is absent or being deleted if it is false.
C12_ConvergedTo(results) ==
    \A k \in SoloKeys :
        /\ domains[k].Status = [DNS |-> results]
        /\ results.Stats => StoredIngress(k).Present
        /\ ~results.Stats => ~StoredIngress(k).Present \/ StoredIngress(k).Deleting

\* C12 as amended: under the same assumptions a Domain that exists keeps
\* being reconciled forever, and once the probes return fixed results,
\* eventually and then forever the stored status equals those results, the
\* Ingress exists if the statistics-DNS result is true, and is absent or has
\* its deletion in progress (held by a finalizer) if the result is false.
C12_EventualConvergence ==
    /\ C12_KeepsReconciling
    /\ \A results \in ProbeResults :
           Settles(results) => <>[]C12_ConvergedTo(results)

\* A pass that returned without error found the Ingress it had asked to
\* delete still stored, held by a finalizer, and left it: the stored
\* statistics-DNS flag is false and the Ingress exists.
C12_Witness ==
    \E k \in SoloKeys :
        /\ Succeeded(k)
        /\ prev[k].ok
        /\ pass[k].found /\ pass[k].foundDeleting
        /\ ~Issued(k, "Delete")
        /\ ~domains[k].Status.DNS.Stats
        /\ StoredIngress(k).Present /\ StoredIngress(k).Deleting

====
